---- MODULE Spec2Model ----
(***************************************************************************)
(* The SNP matcher worker of snp-browser (snpMatcher.worker.ts): the       *)
(* worker-global store handle `db`, loadDatabase, getDatabaseStats,        *)
(* matchSNPs / matchSNPsInBatches and searchSNPs.                          *)
(*                                                                         *)
(* Text is a sequence of one-character strings, so that case folding,      *)
(* trimming and LIKE matching are computed and not assumed.                *)
(***************************************************************************)
EXTENDS Integers, Sequences, FiniteSets, TLC

VARIABLES
    db,          \* part_000:243  let db: Database | null
    loadPc,      \* position of each loadDatabase call, by call number
    loads,       \* number of loadDatabase calls started so far
    image,       \* the byte stream served to each call
    streamPos,   \* bytes of image already handed out by reader.read()
    total,       \* part_000:332  declared content-length (0 = unknown)
    chunks,      \* part_000:339
    receivedLength, \* part_000:340
    loadTicks,   \* values passed to the call's onProgress, in order
    loadError,   \* message of the error the call rejected with
    mPc,         \* position of the matchSNPs call in flight
    database,    \* part_000:264  the handle matchSNPsInBatches was given
    genotypes,   \* part_000:265
    i,           \* part_000:271  loop index
    matches,     \* part_000:268
    queries,     \* the statements the match call handed to the store
    mTicks,      \* (current, total) pairs passed to matchSNPs' onProgress
    mError,      \* message of the error matchSNPs rejected with
    failures,    \* engine failures injected into the call in flight
    sPc,         \* position of the searchSNPs call in flight
    sFilters,    \* the criteria of the searchSNPs call
    sQueries,    \* the statements searchSNPs handed to the store
    sResult,     \* { results, total } of the settled searchSNPs call
    sError,      \* message of the error searchSNPs rejected with
    stats,       \* outcome of the last getDatabaseStats call
    app,         \* part_003:99-103  parseResult, matches, isMatching, matchError
    appReading,  \* handleFileSelect calls awaiting file.text()
    appMatching, \* handleFileSelect calls awaiting workerApi.matchSNPs
    appQueue,    \* state updates of App scheduled and not yet rendered
    browser,     \* part_001:50-59  the state of the SNPBrowser component
    browserSearches, \* performSearch calls awaiting workerApi.searchSNPs
    browserQueue \* state updates of SNPBrowser scheduled and not yet rendered

vars == <<db, loadPc, loads, image, streamPos, total, chunks, receivedLength,
          loadTicks, loadError, mPc, database, genotypes, i, matches, queries,
          mTicks, mError, failures, sPc, sFilters, sQueries, sResult, sError,
          stats, app, appReading, appMatching, appQueue, browser,
          browserSearches, browserQueue>>

loadVars == <<loadPc, loads, image, streamPos, total, chunks, receivedLength,
              loadTicks, loadError>>
matchVars == <<mPc, database, genotypes, i, matches, queries, mTicks, mError,
               failures>>
searchVars == <<sPc, sFilters, sQueries, sResult, sError>>
workerVars == <<db, loadVars, matchVars, searchVars, stats>>
appVars == <<app, appReading, appMatching, appQueue>>
browserVars == <<browser, browserSearches, browserQueue>>
uiVars == <<appVars, browserVars>>

(***************************************************************************)
(* Bounds of the model.                                                    *)
(***************************************************************************)
\* short key lists: every list over Keys of length 0..MaxShortLen
MaxShortLen == 3
\* long key lists span up to MaxGroups groups of batchSize keys
MaxGroups == 3
\* engine failures injected into one matchSNPs call
MaxFailures == 1
\* loadDatabase calls per behaviour
MaxLoads == 2
\* largest chunk a reader.read() delivers
MaxChunk == 2
\* largest declared content-length
MaxTotal == 5
\* most reads of one load that deliver a chunk of no bytes
MaxEmptyChunks == 1

(***************************************************************************)
(* Text.                                                                   *)
(***************************************************************************)
Min(a, b) == IF a < b THEN a ELSE b

CeilDiv(n, d) == (n + d - 1) \div d

\* String.prototype.toLowerCase on one character
LowerChar(c) ==
    CASE c = "R" -> "r"
      [] c = "S" -> "s"
      [] c = "A" -> "a"
      [] c = "B" -> "b"
      [] OTHER -> c

\* part_004:151  rsid.toLowerCase()
ToLowerCase(s) == [k \in 1..Len(s) |-> LowerChar(s[k])]

rs1 == <<"r", "s", "1">>
rs2 == <<"r", "s", "2">>
rs3 == <<"r", "s", "3">>
rs4 == <<"r", "s", "4">>
RS1 == <<"R", "s", "1">>

\* the rsids that occur as lookup keys
Keys == {rs1, rs2, rs3, rs4, RS1}

\* SQL NULL in a nullable column
Null == <<"<null>">>

(***************************************************************************)
(* The dataset. A dataset image is the sequence of its rows in storage     *)
(* order; the column rsid is the key of the table snps (update-db.ts       *)
(* addresses a row by WHERE rsid = ?), so no two rows share an rsid.       *)
(***************************************************************************)
Row(key, chr, gene, sig, disease) ==
    [rsid |-> key, content |-> <<"a", "_", "b">>, chromosome |-> chr,
     gene |-> gene, gene_s |-> Null, clin_sig |-> sig,
     clin_disease |-> disease, clin_gene_name |-> Null]

Row1 == Row(rs1, <<"1">>, <<"A", "b">>, <<"B">>, <<"a", "b">>)
Row2 == Row(rs2, <<"1">>, Null, Null, Null)
Row3 == Row(rs3, <<"2">>, <<"b">>, <<"a", "B">>, <<"a", "%">>)
RowU == Row(RS1, <<"2">>, <<"a">>, Null, <<"b", "a">>)

Images == {<<Row1, Row2, Row3>>, <<Row3, Row1>>, <<RowU, Row2, Row1>>}

\* a longer dataset, of rows that no lookup key names
LongImage ==
    <<Row1, Row2, Row3>> \o
    [n \in 1..4 |-> Row(<<"r", "s", <<"5", "6", "7", "8">>[n]>>, <<"1">>,
                        Null, Null, Null)]

\* the byte streams served to loadDatabase when it runs alone
LoadImages == Images \cup {LongImage}

\* mutant of Loaded: the handle is taken to be set
Loaded_Unchecked(handle) == TRUE

\* part_000:382, 404, 423  the test `!db` of the three readers
Loaded(handle) == handle.resident

\* the value of `db` before any load and after a failed one
NoDb == [resident |-> FALSE, rows |-> <<>>, id |-> 0]

\* part_000:369  new SQL.Database(dbBuffer): one row per byte of the buffer
Materialize(buffer, n) == [resident |-> TRUE, rows |-> buffer, id |-> n]

(***************************************************************************)
(* The store's side of a statement.                                        *)
(***************************************************************************)
\* the orders in which the rows of a result may be stepped through
Orderings(rows) ==
    LET n == Len(rows)
        perms == {p \in [1..n -> 1..n] : \A a, b \in 1..n : p[a] = p[b] => a = b}
    IN {[k \in 1..n |-> rows[p[k]]] : p \in perms}

\* mutant of InQuery: WHERE rsid = ? with the first key only
InQuery_FirstParam(store, rsids) ==
    Orderings(SelectSeq(store.rows,
                        LAMBDA r : rsids # <<>> /\ rsids[1] = r.rsid))

\* part_000:277  SELECT ... FROM snps WHERE rsid IN (?,...,?): the rows whose
\* rsid is one of the bound values (binary comparison). The statement has no
\* ORDER BY, so the order of the rows is the engine's (storage order on a
\* scan, key order through an index): the set of the sequences stmt.step()
\* may yield
InQuery(store, rsids) ==
    Orderings(SelectSeq(store.rows,
                        LAMBDA r : \E k \in 1..Len(rsids) : rsids[k] = r.rsid))

(***************************************************************************)
(* matchSNPsInBatches                                                      *)
(***************************************************************************)
batchSize == 500
\* the ceiling the comment at part_000:269 names
SQLiteParamLimit == 999

\* Array.prototype.slice(start, end), 0-based, end exclusive
Slice(arr, start, end) == SubSeq(arr, start + 1, Min(end, Len(arr)))

\* mutant of BatchOf: the slice ends one key early
BatchOf_ShortEnd(g, idx) == Slice(g, idx, Min(idx + batchSize - 1, Len(g)))

\* mutant of BatchOf: the slice is not capped at batchSize keys
BatchOf_Uncapped(g, idx) == Slice(g, idx, Len(g))

\* part_000:272
BatchOf(g, idx) == Slice(g, idx, Min(idx + batchSize, Len(g)))

\* part_000:273
RsidsOf(batch) == [k \in 1..Len(batch) |-> batch[k].rsid]

NotFound == [rsid |-> <<>>, position |-> 0]

\* mutant of Find: the keys are compared after case folding
Find_IgnoreCase(batch, key) ==
    IF \E k \in 1..Len(batch) : ToLowerCase(batch[k].rsid) = ToLowerCase(key)
    THEN batch[CHOOSE k \in 1..Len(batch) :
                 /\ ToLowerCase(batch[k].rsid) = ToLowerCase(key)
                 /\ \A j \in 1..(k - 1) :
                      ToLowerCase(batch[j].rsid) # ToLowerCase(key)]
    ELSE [rsid |-> <<>>, position |-> 0]

\* part_000:285  batch.find((g) => g.rsid === row.rsid): the first one
Find(batch, key) ==
    IF \E k \in 1..Len(batch) : batch[k].rsid = key
    THEN batch[CHOOSE k \in 1..Len(batch) :
                 /\ batch[k].rsid = key
                 /\ \A j \in 1..(k - 1) : batch[j].rsid # key]
    ELSE NotFound

\* mutant of PushMatches: the batch is walked in input order and each key
\* is looked up among the returned rows
PushMatches_InputOrder(acc, batch, rows) ==
    LET hits == SelectSeq(batch,
                    LAMBDA g : \E r \in 1..Len(rows) : rows[r].rsid = g.rsid)
    IN acc \o [m \in 1..Len(hits) |->
                 [rsid |-> hits[m].rsid, position |-> hits[m].position,
                  snpData |-> rows[CHOOSE r \in 1..Len(rows) :
                                     rows[r].rsid = hits[m].rsid]]]

\* part_000:283-293  the while loop over the rows the statement returned
RECURSIVE PushMatches(_, _, _)
PushMatches(acc, batch, rows) ==
    IF rows = <<>> THEN acc
    ELSE LET row == Head(rows)
             userGenotype == Find(batch, row.rsid)
         IN PushMatches(
                IF userGenotype # NotFound
                THEN Append(acc, [rsid |-> userGenotype.rsid,
                                  position |-> userGenotype.position,
                                  snpData |-> row])
                ELSE acc,
                batch, Tail(rows))

\* mutant of ProgressCurrent: the start of the group is reported
ProgressCurrent_GroupStart(idx, n) == idx

\* mutant of ProgressCurrent: the end of the group is not capped at n
ProgressCurrent_NoMin(idx, n) == idx + batchSize

\* part_000:300  first argument of onProgress
ProgressCurrent(idx, n) == Min(idx + batchSize, n)

\* part_000:271  i += batchSize
NextIndex(idx) == idx + batchSize

\* part_000:401  the UserGenotype list a caller passes to matchSNPs: one
\* record per key, as written by the caller (any case), the position being
\* the ordinal of the record
Genotypes(keys) == [k \in 1..Len(keys) |-> [rsid |-> keys[k], position |-> k]]

ShortKeyLists == UNION {[1..n -> Keys] : n \in 0..MaxShortLen}

LongLens ==
    {g * batchSize + d : g \in 1..(MaxGroups - 1), d \in {-1, 0, 1}}
        \cup {(MaxGroups - 1) * batchSize + 200}

Patterns ==
    {[first |-> rs1, last |-> rs3, fill |-> rs4],
     [first |-> rs3, last |-> rs3, fill |-> rs3],
     [first |-> rs4, last |-> rs1, fill |-> rs4]}

LongKeys(n, p) ==
    [k \in 1..n |-> IF k % batchSize = 1 THEN p.first
                    ELSE IF k % batchSize = 0 THEN p.last
                    ELSE p.fill]

LongKeyLists == {LongKeys(n, p) : n \in LongLens, p \in Patterns}

KeyLists == ShortKeyLists \cup LongKeyLists

NoStats == [called |-> FALSE, threw |-> FALSE, error |-> "", totalSNPs |-> 0]

StatsIdle == stats = NoStats

\* no call of the worker is running synchronous code
WorkerFree == mPc = "idle" /\ sPc = "idle" /\ StatsIdle

NotLoadedError == "Database not loaded. Call loadDatabase first."

\* part_000:400-409  workerApi.matchSNPs
MatchSNPs(keys) ==
    /\ WorkerFree
    /\ IF ~Loaded(db)
       THEN /\ mPc' = "rejected"
            /\ mError' = NotLoadedError
            /\ UNCHANGED <<database, genotypes, i, matches, queries, mTicks,
                           failures>>
       ELSE /\ mPc' = "loop"
            /\ database' = db
            /\ genotypes' = Genotypes(keys)
            /\ i' = 0
            /\ matches' = <<>>
            /\ queries' = <<>>
            /\ mTicks' = <<>>
            /\ failures' = 0
            /\ UNCHANGED mError
    /\ UNCHANGED <<db, loadVars, searchVars, stats>>
    /\ UNCHANGED uiVars

\* what the try block of one loop iteration leaves behind, for one outcome of
\* the engine: "ok", or a throw in prepare, in bind, or in the step() call
\* that follows the first `got` rows
QueryRecord(rsids, outcome, stepped) ==
    [placeholders |-> Len(rsids),
     bound |-> IF outcome = "prepare" THEN <<>> ELSE rsids,
     outcome |-> outcome,
     rows |-> stepped]

\* part_000:272-298  one iteration up to the end of try/catch
BatchQuery ==
    /\ mPc = "loop"
    /\ i < Len(genotypes)
    /\ LET batch == BatchOf(genotypes, i)
           rsids == RsidsOf(batch)
       IN \E rows \in InQuery(database, rsids) :
          \E outcome \in {"ok", "prepare", "bind", "step"} :
          \E got \in 0..Len(rows) :
            /\ outcome = "ok" => got = Len(rows)
            /\ outcome \in {"prepare", "bind"} => got = 0
            /\ outcome # "ok" => failures < MaxFailures
            /\ failures' = IF outcome = "ok" THEN failures ELSE failures + 1
            /\ matches' = PushMatches(matches, batch, SubSeq(rows, 1, got))
            /\ queries' = Append(queries,
                                 QueryRecord(rsids, outcome, SubSeq(rows, 1, got)))
    /\ mPc' = "tick"
    /\ UNCHANGED <<db, loadVars, searchVars, stats, database, genotypes, i,
                   mTicks, mError>>
    /\ UNCHANGED uiVars

\* part_000:300 and the loop increment
BatchProgress ==
    /\ mPc = "tick"
    /\ mTicks' = Append(mTicks, <<ProgressCurrent(i, Len(genotypes)),
                                  Len(genotypes)>>)
    /\ i' = NextIndex(i)
    /\ mPc' = "loop"
    /\ UNCHANGED <<db, loadVars, searchVars, stats, database, genotypes,
                   matches, queries, mError, failures>>
    /\ UNCHANGED uiVars

\* mutant of MatchReturn: the loop ends and the call stays pending
MatchReturn_Pending ==
    /\ mPc = "loop"
    /\ ~(i < Len(genotypes))
    /\ mPc' = "loop"
    /\ UNCHANGED <<db, loadVars, searchVars, stats, database, genotypes, i,
                   matches, queries, mTicks, mError, failures>>
    /\ UNCHANGED uiVars

\* part_000:271, 303  the loop condition fails: return matches
MatchReturn ==
    /\ mPc = "loop"
    /\ ~(i < Len(genotypes))
    /\ mPc' = "resolved"
    /\ UNCHANGED <<db, loadVars, searchVars, stats, database, genotypes, i,
                   matches, queries, mTicks, mError, failures>>
    /\ UNCHANGED uiVars

\* the settled call is delivered to the caller and its locals are dropped
MatchSettle ==
    /\ mPc \in {"resolved", "rejected"}
    /\ mPc' = "idle"
    /\ database' = NoDb
    /\ genotypes' = <<>>
    /\ i' = 0
    /\ matches' = <<>>
    /\ queries' = <<>>
    /\ mTicks' = <<>>
    /\ mError' = ""
    /\ failures' = 0
    /\ UNCHANGED <<db, loadVars, searchVars, stats>>
    /\ UNCHANGED uiVars

(***************************************************************************)
(* loadDatabase. A progress value is the fraction <<num, den>>, so that     *)
(* 30 + (receivedLength / total) * 50 is kept exactly.                     *)
(***************************************************************************)
Tick(v) == <<v, 1>>

\* part_000:351  30 + (receivedLength / total) * 50
DownloadProgress(received, declared) == <<30 * declared + 50 * received, declared>>

\* mutant of LengthKnown: the download tick is computed for any length
LengthKnown_Always(declared) == TRUE

\* part_000:349  if (total > 0)
LengthKnown(declared) == declared > 0

\* mutant of Concat: the buffer holds the first chunk only
Concat_FirstChunk(cs) == IF cs = <<>> THEN <<>> ELSE Head(cs)

\* part_000:358-364  the chunks laid end to end
RECURSIVE Concat(_)
Concat(cs) == IF cs = <<>> THEN <<>> ELSE Head(cs) \o Concat(Tail(cs))

\* the loadDatabase calls, numbered in the order in which they start
LoadCalls == 1..MaxLoads

\* mutant of LoadFail: the catch block leaves the handle as it was
LoadFail_KeepStore(c, msg, ticks) ==
    /\ db' = db
    /\ loadPc' = [loadPc EXCEPT ![c] = "rejected"]
    /\ loadError' = [loadError EXCEPT ![c] = msg]
    /\ loadTicks' = [loadTicks EXCEPT ![c] = ticks]

\* part_000:372-375  catch: db = null; throw error
LoadFail(c, msg, ticks) ==
    /\ db' = NoDb
    /\ loadPc' = [loadPc EXCEPT ![c] = "rejected"]
    /\ loadError' = [loadError EXCEPT ![c] = msg]
    /\ loadTicks' = [loadTicks EXCEPT ![c] = ticks]

\* part_000:313-319  loadDatabase up to the await of initSqlJs. Nothing
\* keeps a call from starting while an earlier one is suspended.
LoadDatabase(img) ==
    /\ WorkerFree
    /\ loads < MaxLoads
    /\ loads' = loads + 1
    /\ image' = [image EXCEPT ![loads + 1] = img]
    /\ loadTicks' = [loadTicks EXCEPT ![loads + 1] = <<Tick(0), Tick(10)>>]
    /\ loadPc' = [loadPc EXCEPT ![loads + 1] = "init"]
    /\ UNCHANGED <<db, streamPos, total, chunks, receivedLength, loadError,
                   matchVars, searchVars, stats>>
    /\ UNCHANGED uiVars

\* part_000:319-326  initSqlJs settles; on success fetch is started
LoadInit(c) ==
    /\ WorkerFree
    /\ loadPc[c] = "init"
    /\ \/ /\ loadPc' = [loadPc EXCEPT ![c] = "fetch"]
          /\ loadTicks' = [loadTicks EXCEPT ![c] = Append(@, Tick(30))]
          /\ UNCHANGED <<db, loadError>>
       \/ LoadFail(c, "initSqlJs failed", loadTicks[c])
    /\ UNCHANGED <<loads, image, streamPos, total, chunks, receivedLength,
                   matchVars, searchVars, stats>>
    /\ UNCHANGED uiVars

\* part_000:326-340  fetch settles; status, content-length and reader
LoadFetch(c, declared) ==
    /\ WorkerFree
    /\ loadPc[c] = "fetch"
    /\ \/ /\ total' = [total EXCEPT ![c] = declared]
          /\ chunks' = [chunks EXCEPT ![c] = <<>>]
          /\ receivedLength' = [receivedLength EXCEPT ![c] = 0]
          /\ loadPc' = [loadPc EXCEPT ![c] = "read"]
          /\ UNCHANGED <<db, loadError, loadTicks>>
       \/ /\ \E msg \in {"fetch failed", "Failed to load database",
                         "Response body is not readable"} :
                LoadFail(c, msg, loadTicks[c])
          /\ UNCHANGED <<total, chunks, receivedLength>>
    /\ UNCHANGED <<loads, image, streamPos, matchVars, searchVars, stats>>
    /\ UNCHANGED uiVars

\* the chunks of no bytes among those received
EmptyChunks(cs) == Len(SelectSeq(cs, LAMBDA chunk : chunk = <<>>))

\* part_000:343-353  reader.read() settles with a chunk of n bytes (of any
\* length, also of none), or throws (at any read, also after the last byte)
LoadChunk(c, n) ==
    /\ WorkerFree
    /\ loadPc[c] = "read"
    /\ \/ /\ n <= Len(image[c]) - streamPos[c]
          /\ n = 0 => EmptyChunks(chunks[c]) < MaxEmptyChunks
          /\ chunks' = [chunks EXCEPT ![c] =
                          Append(@, SubSeq(image[c], streamPos[c] + 1,
                                           streamPos[c] + n))]
          /\ receivedLength' = [receivedLength EXCEPT ![c] = @ + n]
          /\ streamPos' = [streamPos EXCEPT ![c] = @ + n]
          /\ loadTicks' =
               IF LengthKnown(total[c])
               THEN [loadTicks EXCEPT ![c] =
                       Append(@, DownloadProgress(receivedLength[c] + n,
                                                  total[c]))]
               ELSE loadTicks
          /\ UNCHANGED <<db, loadPc, loadError>>
       \/ /\ LoadFail(c, "read failed", loadTicks[c])
          /\ UNCHANGED <<chunks, receivedLength, streamPos>>
    /\ UNCHANGED <<loads, image, total, matchVars, searchVars, stats>>
    /\ UNCHANGED uiVars

\* part_000:343-371  reader.read() reports done: concatenate, materialize
LoadDone(c) ==
    /\ WorkerFree
    /\ loadPc[c] = "read"
    /\ streamPos[c] = Len(image[c])
    /\ \/ /\ db' = Materialize(Concat(chunks[c]), c)
          /\ loadTicks' = [loadTicks EXCEPT ![c] =
                             @ \o <<Tick(85), Tick(90), Tick(100)>>]
          /\ loadPc' = [loadPc EXCEPT ![c] = "resolved"]
          /\ UNCHANGED loadError
       \/ LoadFail(c, "file is not a database",
                   loadTicks[c] \o <<Tick(85), Tick(90)>>)
    /\ UNCHANGED <<loads, image, streamPos, total, chunks, receivedLength,
                   matchVars, searchVars, stats>>
    /\ UNCHANGED uiVars

\* the settled call is delivered to the caller and its locals are dropped
LoadSettle(c) ==
    /\ WorkerFree
    /\ loadPc[c] \in {"resolved", "rejected"}
    /\ loadPc' = [loadPc EXCEPT ![c] = "idle"]
    /\ image' = [image EXCEPT ![c] = <<>>]
    /\ streamPos' = [streamPos EXCEPT ![c] = 0]
    /\ total' = [total EXCEPT ![c] = 0]
    /\ chunks' = [chunks EXCEPT ![c] = <<>>]
    /\ receivedLength' = [receivedLength EXCEPT ![c] = 0]
    /\ loadTicks' = [loadTicks EXCEPT ![c] = <<>>]
    /\ loadError' = [loadError EXCEPT ![c] = ""]
    /\ UNCHANGED <<db, loads, matchVars, searchVars, stats>>
    /\ UNCHANGED uiVars

(***************************************************************************)
(* getDatabaseStats                                                        *)
(***************************************************************************)
\* mutant of GetDatabaseStats: the call closes the store
GetDatabaseStats_Closes ==
    /\ WorkerFree
    /\ stats' = [called |-> TRUE, threw |-> ~Loaded(db),
                 error |-> IF Loaded(db) THEN "" ELSE "Database not loaded",
                 totalSNPs |-> Len(db.rows)]
    /\ db' = NoDb
    /\ UNCHANGED <<loadVars, matchVars, searchVars>>
    /\ UNCHANGED uiVars

\* part_000:381-395
GetDatabaseStats ==
    /\ WorkerFree
    /\ IF ~Loaded(db)
       THEN stats' = [called |-> TRUE, threw |-> TRUE,
                      error |-> "Database not loaded", totalSNPs |-> 0]
       ELSE \E failed \in BOOLEAN :
              stats' = [called |-> TRUE, threw |-> FALSE, error |-> "",
                        totalSNPs |-> IF failed THEN 0 ELSE Len(db.rows)]
    /\ UNCHANGED <<db, loadVars, matchVars, searchVars>>
    /\ UNCHANGED uiVars

StatsSettle ==
    /\ ~StatsIdle
    /\ stats' = NoStats
    /\ UNCHANGED <<db, loadVars, matchVars, searchVars>>
    /\ UNCHANGED uiVars

(***************************************************************************)
(* searchSNPs                                                              *)
(***************************************************************************)
\* a criterion the caller left out
Undefined == <<"<undefined>">>

\* JavaScript truthiness of an optional string
Truthy(s) == s # Undefined /\ s # <<>>

IsSpace(c) == c = " "

RECURSIVE TrimStart(_)
TrimStart(s) ==
    IF s # <<>> /\ IsSpace(Head(s)) THEN TrimStart(Tail(s)) ELSE s

RECURSIVE TrimEnd(_)
TrimEnd(s) ==
    IF s # <<>> /\ IsSpace(s[Len(s)]) THEN TrimEnd(SubSeq(s, 1, Len(s) - 1)) ELSE s

\* String.prototype.trim
Trim(s) == TrimEnd(TrimStart(s))

\* `%${text}%`
Wrap(s) == <<"%">> \o s \o <<"%">>

SearchTermClause ==
    "(rsid LIKE ? OR gene LIKE ? OR gene_s LIKE ? OR content LIKE ? OR clin_disease LIKE ? OR clin_gene_name LIKE ?)"
ChromosomeClause == "chromosome = ?"
GeneClause == "(gene LIKE ? OR gene_s LIKE ? OR clin_gene_name LIKE ?)"
ClinSigClause == "clin_sig LIKE ?"
DiseaseClause == "clin_disease LIKE ?"

\* the columns a clause tests, one placeholder each
ClauseColumns(clause) ==
    CASE clause = SearchTermClause ->
           <<"rsid", "gene", "gene_s", "content", "clin_disease", "clin_gene_name">>
      [] clause = ChromosomeClause -> <<"chromosome">>
      [] clause = GeneClause -> <<"gene", "gene_s", "clin_gene_name">>
      [] clause = ClinSigClause -> <<"clin_sig">>
      [] clause = DiseaseClause -> <<"clin_disease">>

Replicate(x, n) == [k \in 1..n |-> x]

\* part_000:427-462  conditions and params, clause by clause
AddSearchTerm(w, f) ==
    IF Truthy(f.searchTerm) /\ Trim(f.searchTerm) # <<>>
    THEN [conditions |-> Append(w.conditions, SearchTermClause),
          params |-> w.params \o Replicate(Wrap(Trim(f.searchTerm)), 6)]
    ELSE w

AddChromosome(w, f) ==
    IF Truthy(f.chromosome)
    THEN [conditions |-> Append(w.conditions, ChromosomeClause),
          params |-> Append(w.params, f.chromosome)]
    ELSE w

\* mutant of AddGene: the term is pushed once for the three placeholders
AddGene_OneParam(w, f) ==
    IF Truthy(f.gene) /\ Trim(f.gene) # <<>>
    THEN [conditions |-> Append(w.conditions, GeneClause),
          params |-> Append(w.params, Wrap(Trim(f.gene)))]
    ELSE w

AddGene(w, f) ==
    IF Truthy(f.gene) /\ Trim(f.gene) # <<>>
    THEN [conditions |-> Append(w.conditions, GeneClause),
          params |-> w.params \o Replicate(Wrap(Trim(f.gene)), 3)]
    ELSE w

AddClinicalSignificance(w, f) ==
    IF Truthy(f.clinicalSignificance)
    THEN [conditions |-> Append(w.conditions, ClinSigClause),
          params |-> Append(w.params, Wrap(f.clinicalSignificance))]
    ELSE w

AddDisease(w, f) ==
    IF Truthy(f.disease) /\ Trim(f.disease) # <<>>
    THEN [conditions |-> Append(w.conditions, DiseaseClause),
          params |-> Append(w.params, Wrap(Trim(f.disease)))]
    ELSE w

BuildWhere(f) ==
    AddDisease(
        AddClinicalSignificance(
            AddGene(
                AddChromosome(
                    AddSearchTerm([conditions |-> <<>>, params |-> <<>>], f), f),
                f),
            f),
        f)

\* SQLite LIKE: % is any run of characters, _ any one character, letters
\* compare without case
RECURSIVE LikeMatch(_, _)
LikeMatch(pat, text) ==
    IF pat = <<>> THEN text = <<>>
    ELSE IF Head(pat) = "%"
         THEN LikeMatch(Tail(pat), text)
                \/ (text # <<>> /\ LikeMatch(pat, Tail(text)))
         ELSE /\ text # <<>>
              /\ (Head(pat) = "_" \/ LowerChar(Head(pat)) = LowerChar(Head(text)))
              /\ LikeMatch(Tail(pat), Tail(text))

\* one test `column LIKE ?` or `column = ?` on a row; NULL satisfies neither
ColumnTest(clause, value, param) ==
    /\ value # Null
    /\ IF clause = ChromosomeClause THEN value = param ELSE LikeMatch(param, value)

PlaceholdersOf(conds) ==
    IF conds = <<>> THEN 0
    ELSE LET F[k \in 0..Len(conds)] ==
                 IF k = 0 THEN 0 ELSE F[k - 1] + Len(ClauseColumns(conds[k]))
         IN F[Len(conds)]

\* the WHERE predicate on a row: the clauses joined by AND, each taking its
\* placeholders' values from the bound list in order
RowQualifies(conds, bound, row) ==
    \A c \in 1..Len(conds) :
        LET cols == ClauseColumns(conds[c])
            base == PlaceholdersOf(SubSeq(conds, 1, c - 1))
        IN \E j \in 1..Len(cols) :
               /\ base + j <= Len(bound)
               /\ ColumnTest(conds[c], row[cols[j]], bound[base + j])

Filtered(store, conds, bound) ==
    SelectSeq(store.rows, LAMBDA r : RowQualifies(conds, bound, r))

\* part_000:467  SELECT COUNT(*) as count FROM snps <where>
CountQuery(store, conds, bound) == Len(Filtered(store, conds, bound))

\* mutant of SelectQuery: OFFSET is not applied
SelectQuery_NoOffset(store, conds, bound) ==
    LET limit == bound[PlaceholdersOf(conds) + 1]
        hits == Filtered(store, conds, bound)
    IN IF limit < 0 THEN hits ELSE SubSeq(hits, 1, Min(limit, Len(hits)))

\* part_000:479  SELECT ... FROM snps <where> LIMIT ? OFFSET ?: a negative
\* LIMIT is no limit, a negative OFFSET is 0
SelectQuery(store, conds, bound) ==
    LET n == PlaceholdersOf(conds)
        limit == bound[n + 1]
        offset == IF bound[n + 2] < 0 THEN 0 ELSE bound[n + 2]
        hits == Filtered(store, conds, bound)
        rest == SubSeq(hits, offset + 1, Len(hits))
    IN IF limit < 0 THEN rest ELSE SubSeq(rest, 1, Min(limit, Len(rest)))

DefaultLimit == 50
DefaultOffset == 0

\* mutant of NumberOr: a missing number is taken as 0
NumberOr_NoDefault(x, d) == IF x = <<>> THEN 0 ELSE x[1]

\* `x || d` on an optional number: <<>> is undefined
NumberOr(x, d) == IF x = <<>> \/ x[1] = 0 THEN d ELSE x[1]

Criteria(term, chr, gene, sig, disease, limit, offset) ==
    [searchTerm |-> term, chromosome |-> chr, gene |-> gene,
     clinicalSignificance |-> sig, disease |-> disease,
     limit |-> limit, offset |-> offset]

NoCriteria == Criteria(Undefined, Undefined, Undefined, Undefined, Undefined,
                       <<>>, <<>>)

NoResult == [results |-> <<>>, total |-> 0]

SearchInputs ==
    {NoCriteria,
     Criteria(<<" ">>, Undefined, Undefined, Undefined, Undefined, <<>>, <<>>),
     Criteria(<<"b">>, Undefined, Undefined, Undefined, Undefined, <<>>, <<>>),
     Criteria(Undefined, <<"1">>, Undefined, Undefined, Undefined, <<1>>, <<>>),
     Criteria(Undefined, <<"1">>, Undefined, Undefined, Undefined, <<1>>, <<5>>),
     Criteria(Undefined, Undefined, <<"a", " ">>, Undefined, Undefined, <<>>, <<>>),
     Criteria(Undefined, Undefined, Undefined, <<"b">>, Undefined, <<>>, <<>>),
     Criteria(Undefined, Undefined, Undefined, Undefined, <<"%">>, <<>>, <<>>),
     Criteria(<<"s">>, <<"2">>, <<"b">>, <<"a">>, <<"a">>, <<2>>, <<0>>),
     Criteria(Undefined, Undefined, Undefined, Undefined, Undefined, <<0>>, <<>>),
     Criteria(Undefined, Undefined, Undefined, Undefined, Undefined, <<-1>>, <<1>>),
     Criteria(Undefined, <<" ">>, Undefined, Undefined, Undefined, <<>>, <<>>),
     Criteria(Undefined, Undefined, Undefined, <<" ">>, <<>>, <<>>, <<>>)}

\* mutant of SearchSNPs: an engine failure is caught and an empty result
\* is returned in its place
SearchSNPs_Swallows(f) ==
    /\ WorkerFree
    /\ IF ~Loaded(db)
       THEN /\ sPc' = "rejected"
            /\ sError' = NotLoadedError
            /\ UNCHANGED <<sFilters, sQueries, sResult>>
       ELSE LET w == BuildWhere(f)
                countQ == [sql |-> "count", where |-> w.conditions,
                           bound |-> w.params]
                selectQ == [sql |-> "select", where |-> w.conditions,
                            bound |-> w.params
                                        \o <<NumberOr(f.limit, DefaultLimit),
                                              NumberOr(f.offset, DefaultOffset)>>]
            IN /\ sFilters' = f
               /\ sPc' = "resolved"
               /\ sQueries' = <<countQ, selectQ>>
               /\ UNCHANGED sError
               /\ \/ sResult' = NoResult
                  \/ sResult' =
                       [results |-> SelectQuery(db, selectQ.where, selectQ.bound),
                        total |-> CountQuery(db, countQ.where, countQ.bound)]
    /\ UNCHANGED <<db, loadVars, matchVars, stats>>
    /\ UNCHANGED uiVars

\* part_000:414-493  workerApi.searchSNPs; the engine may throw in either
\* statement
SearchSNPs(f) ==
    /\ WorkerFree
    /\ IF ~Loaded(db)
       THEN /\ sPc' = "rejected"
            /\ sError' = NotLoadedError
            /\ UNCHANGED <<sFilters, sQueries, sResult>>
       ELSE LET w == BuildWhere(f)
                limit == NumberOr(f.limit, DefaultLimit)
                offset == NumberOr(f.offset, DefaultOffset)
                countQ == [sql |-> "count", where |-> w.conditions,
                           bound |-> w.params]
                selectQ == [sql |-> "select", where |-> w.conditions,
                            bound |-> w.params \o <<limit, offset>>]
            IN /\ sFilters' = f
               /\ \/ /\ sPc' = "rejected"
                     /\ sError' = "count query failed"
                     /\ sQueries' = <<countQ>>
                     /\ UNCHANGED sResult
                  \/ /\ sPc' = "rejected"
                     /\ sError' = "select query failed"
                     /\ sQueries' = <<countQ, selectQ>>
                     /\ UNCHANGED sResult
                  \/ /\ sPc' = "resolved"
                     /\ sQueries' = <<countQ, selectQ>>
                     /\ sResult' =
                          [results |-> SelectQuery(db, selectQ.where, selectQ.bound),
                           total |-> CountQuery(db, countQ.where, countQ.bound)]
                     /\ UNCHANGED sError
    /\ UNCHANGED <<db, loadVars, matchVars, stats>>
    /\ UNCHANGED uiVars

\* the settled call is delivered to the caller and its locals are dropped
SearchSettle ==
    /\ sPc \in {"resolved", "rejected"}
    /\ sPc' = "idle"
    /\ sFilters' = NoCriteria
    /\ sQueries' = <<>>
    /\ sResult' = NoResult
    /\ sError' = ""
    /\ UNCHANGED <<db, loadVars, matchVars, stats>>
    /\ UNCHANGED uiVars

\* part_003:9, 99-103  the App component as constructed, with the
\* isDragging of the FileUpload element it renders
\* a state that is null or one value: <<>> is null, <<v>> holds v
AppMounted ==
    [parseResult |-> <<>>, matches |-> <<>>, isMatching |-> FALSE,
     matchError |-> <<>>, isDragging |-> FALSE]

\* part_001:50-59  the SNPBrowser component as constructed
BrowserConstructed ==
    [searchTerm |-> <<>>, chromosome |-> <<>>, gene |-> <<>>,
     clinicalSignificance |-> <<>>, disease |-> <<>>, results |-> <<>>,
     total |-> 0, selectedSNP |-> <<>>, isSearching |-> FALSE, page |-> 0]

\* the update queues of App with nothing scheduled: a field is <<>> or holds
\* the value of the last set call queued for it
NoAppUpdates ==
    [parseResult |-> <<>>, matches |-> <<>>, isMatching |-> <<>>,
     matchError |-> <<>>, isDragging |-> <<>>]

\* the update queues of SNPBrowser with nothing scheduled: `page` the queued
\* setPage calls, `answer` the queued setResults and setTotal, `isSearching`
\* the queued setIsSearching, `effects` the effects of a commit that have
\* not run yet
NothingQueued ==
    [page |-> <<>>, answer |-> <<>>, isSearching |-> <<>>, effects |-> <<>>]

\* no component has a call in flight
UiIdle ==
    /\ app = AppMounted /\ appReading = <<>> /\ appMatching = <<>>
    /\ appQueue = NoAppUpdates
    /\ browser = BrowserConstructed /\ browserSearches = <<>>
    /\ browserQueue = NothingQueued

MatchIdle ==
    /\ mPc = "idle" /\ database = NoDb /\ genotypes = <<>> /\ i = 0
    /\ matches = <<>> /\ queries = <<>> /\ mTicks = <<>> /\ mError = ""
    /\ failures = 0

SearchIdle ==
    /\ sPc = "idle" /\ sFilters = NoCriteria /\ sQueries = <<>>
    /\ sResult = NoResult /\ sError = ""

\* no loadDatabase call is in flight or awaits delivery
LoadIdle ==
    /\ loadPc = [c \in LoadCalls |-> "idle"]
    /\ image = [c \in LoadCalls |-> <<>>]
    /\ streamPos = [c \in LoadCalls |-> 0]
    /\ total = [c \in LoadCalls |-> 0]
    /\ chunks = [c \in LoadCalls |-> <<>>]
    /\ receivedLength = [c \in LoadCalls |-> 0]
    /\ loadTicks = [c \in LoadCalls |-> <<>>]
    /\ loadError = [c \in LoadCalls |-> ""]

\* a worker whose one loadDatabase call has succeeded and been delivered
InitMatch ==
    /\ \E img \in Images : db = Materialize(img, 1)
    /\ loads = 1
    /\ LoadIdle /\ MatchIdle /\ SearchIdle
    /\ stats = NoStats
    /\ UiIdle

NextMatch ==
    \/ \E keys \in KeyLists : MatchSNPs(keys)
    \/ BatchQuery
    \/ BatchProgress
    \/ MatchReturn
    \/ MatchSettle

SpecMatch == InitMatch /\ [][NextMatch]_vars

(***************************************************************************)
(* The worker.                                                             *)
(***************************************************************************)
\* the key lists of the matchSNPs calls made on the whole worker
WorkerKeyLists ==
    {<<>>, <<rs1>>, <<rs4>>, <<rs1, rs1>>,
     LongKeys(batchSize + 1, [first |-> rs1, last |-> rs3, fill |-> rs4])}

Init ==
    /\ db = NoDb
    /\ loads = 0
    /\ LoadIdle /\ MatchIdle /\ SearchIdle
    /\ stats = NoStats
    /\ UiIdle

\* the byte streams, the declared lengths and the chunk sizes of the loads
\* made on the whole worker, where a load may start while another is in
\* flight
WorkerImages == {<<Row3, Row1>>, <<Row1>>}
WorkerLengths == {0, 1}
WorkerChunks == 1..MaxChunk

Next ==
    \/ \E img \in WorkerImages : LoadDatabase(img)
    \/ \E c \in LoadCalls : LoadInit(c)
    \/ \E c \in LoadCalls : \E declared \in WorkerLengths : LoadFetch(c, declared)
    \/ \E c \in LoadCalls : \E n \in WorkerChunks : LoadChunk(c, n)
    \/ \E c \in LoadCalls : LoadDone(c)
    \/ \E c \in LoadCalls : LoadSettle(c)
    \/ GetDatabaseStats
    \/ StatsSettle
    \/ \E keys \in WorkerKeyLists : MatchSNPs(keys)
    \/ BatchQuery
    \/ BatchProgress
    \/ MatchReturn
    \/ MatchSettle
    \/ \E f \in SearchInputs : SearchSNPs(f)
    \/ SearchSettle

Spec == Init /\ [][Next]_vars

\* the worker's event loop: the continuation of a settled await and the
\* delivery of a settled call get their turn, however many other calls are
\* posted; a started loop iteration runs on without waiting
LoadStep(c) ==
    \/ LoadInit(c)
    \/ \E declared \in 0..MaxTotal : LoadFetch(c, declared)
    \/ \E n \in 0..MaxChunk : LoadChunk(c, n)
    \/ LoadDone(c)
    \/ LoadSettle(c)
MatchStep == BatchQuery \/ BatchProgress \/ MatchReturn \/ MatchSettle

Fairness ==
    /\ \A c \in LoadCalls : SF_vars(LoadStep(c))
    /\ WF_vars(MatchStep)
    /\ WF_vars(SearchSettle)
    /\ WF_vars(StatsSettle)

\* the four kinds of call together, loads overlapping, on a stream of one
\* row that may deliver an empty chunk, two key lists (one and two groups)
\* and one criteria object
NextSettle ==
    \/ LoadDatabase(<<Row1>>)
    \/ \E c \in LoadCalls : LoadInit(c)
    \/ \E c \in LoadCalls : LoadFetch(c, 1)
    \/ \E c \in LoadCalls : \E n \in 0..1 : LoadChunk(c, n)
    \/ \E c \in LoadCalls : LoadDone(c)
    \/ \E c \in LoadCalls : LoadSettle(c)
    \/ GetDatabaseStats
    \/ StatsSettle
    \/ \E keys \in {<<rs1>>,
                     LongKeys(batchSize + 1,
                              [first |-> rs1, last |-> rs3, fill |-> rs4])} :
         MatchSNPs(keys)
    \/ BatchQuery
    \/ BatchProgress
    \/ MatchReturn
    \/ MatchSettle
    \/ SearchSNPs(NoCriteria)
    \/ SearchSettle

SpecSettle == Init /\ [][NextSettle]_vars /\ Fairness

\* the store handle under loads that overlap, read by one call of each of
\* the three readers: the streams of the whole worker delivered one byte a
\* chunk, one key, no criteria
NextStore ==
    \/ \E img \in WorkerImages : LoadDatabase(img)
    \/ \E c \in LoadCalls : LoadInit(c)
    \/ \E c \in LoadCalls : \E declared \in WorkerLengths : LoadFetch(c, declared)
    \/ \E c \in LoadCalls : LoadChunk(c, 1)
    \/ \E c \in LoadCalls : LoadDone(c)
    \/ \E c \in LoadCalls : LoadSettle(c)
    \/ GetDatabaseStats
    \/ StatsSettle
    \/ MatchSNPs(<<rs1>>)
    \/ BatchQuery
    \/ BatchProgress
    \/ MatchReturn
    \/ MatchSettle
    \/ SearchSNPs(NoCriteria)
    \/ SearchSettle

SpecStore == Init /\ [][NextStore]_vars

\* no loadDatabase call is in flight or awaits delivery
NoLoadPending == \A c \in LoadCalls : loadPc[c] = "idle"

\* loadDatabase calls alone, made by a caller that awaits each call before
\* it makes the next, on the longer streams too
NextLoad ==
    \/ \E img \in LoadImages : NoLoadPending /\ LoadDatabase(img)
    \/ \E c \in LoadCalls : LoadInit(c)
    \/ \E c \in LoadCalls : \E declared \in 0..MaxTotal : LoadFetch(c, declared)
    \/ \E c \in LoadCalls : \E n \in 0..MaxChunk : LoadChunk(c, n)
    \/ \E c \in LoadCalls : LoadDone(c)
    \/ \E c \in LoadCalls : LoadSettle(c)

SpecLoad == Init /\ [][NextLoad]_vars

\* a dataset of one row more than the default page holds
BigRow(k) ==
    LET digits == <<"0", "1", "2", "3", "4", "5", "6", "7", "8", "9">>
    IN Row(<<"r", "s", "9", digits[(k \div 10) + 1], digits[(k % 10) + 1]>>,
           <<"1">>, Null, Null, Null)
BigImage == [k \in 1..(DefaultLimit + 1) |-> BigRow(k)]

SearchImages == Images \cup {BigImage}

\* a worker whose one loadDatabase call has succeeded and been delivered
InitSearch ==
    /\ \E img \in SearchImages : db = Materialize(img, 1)
    /\ loads = 1
    /\ LoadIdle /\ MatchIdle /\ SearchIdle
    /\ stats = NoStats
    /\ UiIdle

\* searchSNPs calls alone, one after the other, on a resident store
NextSearch ==
    \/ \E f \in SearchInputs : SearchSNPs(f)
    \/ SearchSettle

SpecSearch == InitSearch /\ [][NextSearch]_vars

(***************************************************************************)
(* The App component (part_003:85-304) on a worker whose store is          *)
(* resident. A file's text is the sequence of its lines, a line the        *)
(* sequence of its columns as line.trim().split(/\s+/) yields them; the    *)
(* third column, the position, is a number.                                *)
(***************************************************************************)
\* most handleFileSelect calls in flight at once
MaxPending == 3
\* the rows of the result list the user clicks are the first MaxClickedRow
MaxClickedRow == 2

IsDigit(c) == c \in {"0", "1", "2", "3", "4", "5", "6", "7", "8", "9"}

\* part_004:124, 173, 180  line.trim().startsWith("#")
IsComment(line) == Len(line) > 0 /\ Head(Head(line)) = "#"

\* part_004:116  !line of the trimmed line
IsBlank(line) == Len(line) = 0

\* part_004:142, 180  /^(rs|i)\d+/i on the text
IsRsid(t) ==
    \/ /\ Len(t) >= 3
       /\ LowerChar(t[1]) = "r" /\ LowerChar(t[2]) = "s" /\ IsDigit(t[3])
    \/ /\ Len(t) >= 2
       /\ LowerChar(t[1]) = "i" /\ IsDigit(t[2])

\* part_004:169-189
validate23andMeFile(fileContent) ==
    LET lines == SubSeq(fileContent, 1, Min(100, Len(fileContent)))
        hasComments == \E k \in 1..Len(lines) : IsComment(lines[k])
        hasRsidData == \E k \in 1..Len(lines) :
                           /\ ~IsBlank(lines[k])
                           /\ ~IsComment(lines[k])
                           /\ IsRsid(Head(lines[k]))
    IN IF ~hasComments THEN [valid |-> FALSE, reason |-> "no # comment lines"]
       ELSE IF ~hasRsidData
            THEN [valid |-> FALSE, reason |-> "no rsid entries found"]
            ELSE [valid |-> TRUE, reason |-> ""]

\* part_004:111-164  the genotypes and the number of errors
RECURSIVE ParseLines(_, _)
ParseLines(lines, acc) ==
    IF lines = <<>> THEN acc
    ELSE LET line == Head(lines)
         IN ParseLines(Tail(lines),
                IF IsBlank(line) \/ IsComment(line) THEN acc
                ELSE IF Len(line) < 4 \/ ~IsRsid(line[1])
                     THEN [acc EXCEPT !.errors = @ + 1]
                     ELSE [acc EXCEPT !.genotypes =
                               Append(@, [rsid |-> ToLowerCase(line[1]),
                                          position |-> line[3]])])

parse23andMeFile(fileContent) ==
    ParseLines(fileContent, [genotypes |-> <<>>, errors |-> 0])

CommentLine == <<<<"#">>, <<"r", "s", "i", "d">>>>
DataLine(key, pos) == <<key, <<"1">>, pos, <<"A", "A">>>>
ShortLine(key, pos) == <<key, <<"1">>, pos>>

FileA == <<CommentLine, DataLine(rs1, 1)>>
FileB == <<CommentLine, DataLine(rs3, 1), DataLine(RS1, 2)>>
\* the files the user gives: the third passes validation and holds no line
\* of four columns, the fourth has no comment line
Files ==
    {FileA, FileB, <<CommentLine, ShortLine(rs1, 1)>>, <<DataLine(rs1, 1)>>}

\* part_000:263-304  what matchSNPs may resolve with when no statement
\* fails: one result for each order in which the statements yield their rows
RECURSIVE MatchAll(_, _, _, _)
MatchAll(store, g, idx, acc) ==
    IF idx < Len(g)
    THEN LET batch == BatchOf(g, idx)
         IN UNION {MatchAll(store, g, NextIndex(idx),
                            PushMatches(acc, batch, rows)) :
                     rows \in InQuery(store, RsidsOf(batch))}
    ELSE {acc}

\* part_003:198, 199
hasResults == app.matches # <<>>
hasError == app.matchError # <<>>

\* part_003:243  the FileUpload element is rendered
FileUploadShown == ~hasError /\ ~hasResults

\* part_003:278  the results panel is rendered
ResultsShown == hasResults /\ ~app.isMatching

\* part_003:44-52, 144-150  a file is chosen in the file dialog:
\* handleFileInput calls handleFileSelect, which awaits file.text(); no
\* state is set, so the handler ends without a render
HandleFileInput(file) ==
    /\ FileUploadShown
    /\ Len(appReading) + Len(appMatching) < MaxPending
    /\ appReading' = Append(appReading, file)
    /\ UNCHANGED <<app, appMatching, appQueue, browserVars, workerVars>>

RemoveAt(seq, k) == SubSeq(seq, 1, k - 1) \o SubSeq(seq, k + 1, Len(seq))

\* part_003:181-185  the catch block: setMatchError(err), setIsMatching(false)
Caught(queue, msg) ==
    [queue EXCEPT !.matchError = <<<<msg>>>>, !.isMatching = <<FALSE>>]

\* the state a render of App makes of the rendered state and the queued
\* updates; a FileUpload element that the render takes away (part_003:243)
\* loses its isDragging, the next one starts with false (part_003:9)
AppRendered(state, queue) ==
    LET next == [f \in DOMAIN state |->
                   IF queue[f] = <<>> THEN state[f] ELSE queue[f][1]]
    IN [next EXCEPT !.isDragging =
                       next.matches = <<>> /\ next.matchError = <<>> /\ @]

\* an update of App is scheduled for a later task
AppUpdatesQueued == appQueue # NoAppUpdates

\* the isDragging the set calls made so far leave
Dragging ==
    IF appQueue.isDragging = <<>> THEN app.isDragging
    ELSE appQueue.isDragging[1]

\* part_003:11-20  a file is dragged over the FileUpload element:
\* setIsDragging(true), rendered by a later task as dragover is a
\* continuous event
HandleDragOver ==
    /\ FileUploadShown
    /\ ~Dragging
    /\ appQueue' = [appQueue EXCEPT !.isDragging = <<TRUE>>]
    /\ UNCHANGED <<app, appReading, appMatching, browserVars, workerVars>>

\* part_003:22-26  the file dragged leaves the element: setIsDragging(false),
\* rendered by a later task
HandleDragLeave ==
    /\ FileUploadShown
    /\ Dragging
    /\ appQueue' = [appQueue EXCEPT !.isDragging = <<FALSE>>]
    /\ UNCHANGED <<app, appReading, appMatching, browserVars, workerVars>>

\* part_003:28-42, 144-150  what is dragged over the element is dropped on
\* it, `files` being e.dataTransfer.files (empty for a dragged text or
\* link): setIsDragging(false), then handleFileSelect(files[0]) when there
\* is a file, which awaits file.text(). Drop is a discrete event: the
\* render at the end of the handler takes in the queued updates of App
\* together with isDragging
HandleDrop(files) ==
    /\ FileUploadShown
    /\ Dragging
    /\ IF Len(files) > 0
       THEN /\ Len(appReading) + Len(appMatching) < MaxPending
            /\ appReading' = Append(appReading, files[1])
       ELSE UNCHANGED appReading
    /\ app' = AppRendered(app, [appQueue EXCEPT !.isDragging = <<FALSE>>])
    /\ appQueue' = NoAppUpdates
    /\ UNCHANGED <<appMatching, browserVars, workerVars>>

\* part_003:150-176  file.text() resolves for one of the calls: validate,
\* parse, and either throw or send the genotypes to the worker; the set
\* calls made on the way are queued for a later render
FileRead(k) ==
    /\ k \in 1..Len(appReading)
    /\ appReading' = RemoveAt(appReading, k)
    /\ LET content == appReading[k]
           validation == validate23andMeFile(content)
           result == parse23andMeFile(content)
           parsed == [appQueue EXCEPT !.parseResult = <<<<result>>>>]
       IN IF ~validation.valid
          THEN /\ appQueue' = Caught(appQueue, validation.reason)
               /\ UNCHANGED appMatching
          ELSE IF Len(result.genotypes) = 0
               THEN /\ appQueue' =
                         Caught(parsed, "No valid SNP data found in file")
                    /\ UNCHANGED appMatching
               ELSE /\ appQueue' = [parsed EXCEPT !.isMatching = <<TRUE>>,
                                                  !.matchError = <<<<>>>>]
                    /\ appMatching' = Append(appMatching, result.genotypes)
    /\ UNCHANGED <<app, browserVars, workerVars>>

\* part_003:178-179  the oldest matchSNPs call resolves (the worker answers
\* its calls in the order it received them): setMatches and
\* setIsMatching(false) are queued for a later render
MatchResolved ==
    /\ appMatching # <<>>
    /\ \E matchedSNPs \in MatchAll(db, Head(appMatching), 0, <<>>) :
         appQueue' = [appQueue EXCEPT !.matches = <<<<matchedSNPs>>>>,
                                      !.isMatching = <<FALSE>>]
    /\ appMatching' = Tail(appMatching)
    /\ UNCHANGED <<app, appReading, browserVars, workerVars>>

\* the render of the updates of App queued after an await or in a drag
\* handler: the task React schedules for them, or the render at the end of
\* a click or a key in ResultsDisplay (part_002:35, 81), which sets no
\* state of App
AppRenderQueued ==
    /\ AppUpdatesQueued
    /\ app' = AppRendered(app, appQueue)
    /\ appQueue' = NoAppUpdates
    /\ UNCHANGED <<appReading, appMatching, browserVars, workerVars>>

\* part_003:190-195  the button "Upload New File" of the results panel on
\* display; the render at the end of the handler takes in the queued
\* updates, then those of the handler
HandleReset ==
    /\ ResultsShown
    /\ app' = [AppRendered(app, appQueue) EXCEPT !.parseResult = <<>>,
                                                 !.matches = <<>>,
                                                 !.matchError = <<>>]
    /\ appQueue' = NoAppUpdates
    /\ UNCHANGED <<appReading, appMatching, browserVars, workerVars>>

InitApp ==
    /\ db = Materialize(<<Row3, Row1>>, 1)
    /\ loads = 1
    /\ LoadIdle /\ MatchIdle /\ SearchIdle
    /\ stats = NoStats
    /\ UiIdle

NextApp ==
    \/ \E file \in Files : HandleFileInput(file)
    \/ HandleDragOver
    \/ HandleDragLeave
    \/ \E files \in {<<>>} \cup {<<file>> : file \in Files} :
         HandleDrop(files)
    \/ \E k \in 1..MaxPending : FileRead(k)
    \/ MatchResolved
    \/ AppRenderQueued
    \/ HandleReset

SpecApp == InitApp /\ [][NextApp]_vars

(***************************************************************************)
(* The SNPBrowser component (part_001:49-300) on a worker whose store is   *)
(* resident and whose statements do not fail.                              *)
(***************************************************************************)
\* part_001:60
pageSize == 50

\* part_000:414-492  what searchSNPs resolves with
SearchOutcome(store, f) ==
    LET w == BuildWhere(f)
        limit == NumberOr(f.limit, DefaultLimit)
        offset == NumberOr(f.offset, DefaultOffset)
    IN [results |-> SelectQuery(store, w.conditions,
                                w.params \o <<limit, offset>>),
        total |-> CountQuery(store, w.conditions, w.params)]

\* `x || undefined` on a text
OrUndefined(x) == IF x = <<>> THEN Undefined ELSE x

\* part_001:69-77  the criteria performSearch sends
Request(b, currentPage) ==
    Criteria(OrUndefined(b.searchTerm), OrUndefined(b.chromosome),
             OrUndefined(b.gene), OrUndefined(b.clinicalSignificance),
             OrUndefined(b.disease), <<pageSize>>, <<currentPage * pageSize>>)

\* part_001:158  Math.ceil(total / pageSize)
totalPages == CeilDiv(browser.total, pageSize)

\* part_001:267  the pagination buttons are rendered
PaginationShown == totalPages > 1

\* part_001:111
hasActiveFilters ==
    \/ browser.searchTerm # <<>> \/ browser.chromosome # <<>>
    \/ browser.gene # <<>> \/ browser.clinicalSignificance # <<>>
    \/ browser.disease # <<>>

FilterFields ==
    {"searchTerm", "chromosome", "gene", "clinicalSignificance", "disease"}

\* the values the user gives a filter
FilterValues(field) ==
    CASE field = "searchTerm" -> {<<>>, <<"r", "s", "9", "0", "1">>}
      [] field = "chromosome" -> {<<>>, <<"2">>}
      [] field = "gene" -> {<<>>, <<"b">>}
      [] field = "clinicalSignificance" -> {<<>>, <<"B">>}
      [] field = "disease" -> {<<>>, <<"a">>}

\* part_001:67, 107, 270, 280  the calls of setPage: setPage(0), and the
\* updaters of the two buttons, the one of "Next" holding the totalPages of
\* the render the button was clicked in
SetPageZero == [op |-> "zero", pages |-> 0]
SetPagePrevious == [op |-> "previous", pages |-> 0]
SetPageNext(pages) == [op |-> "next", pages |-> pages]

\* part_001:67, 270, 280  the page one setPage call makes of page p
PageAfter(update, p) ==
    CASE update.op = "zero" -> 0
      [] update.op = "previous" -> (IF p - 1 < 0 THEN 0 ELSE p - 1)
      [] update.op = "next" -> Min(update.pages - 1, p + 1)

\* the page a render computes from the setPage calls made since the last
\* render, in the order they were made
RECURSIVE PageRendered(_, _)
PageRendered(updates, p) ==
    IF updates = <<>> THEN p
    ELSE PageRendered(Tail(updates), PageAfter(Head(updates), p))

\* part_001:91-100  the effects that run after a render: the filter effect
\* calls performSearch(true), the page effect performSearch(false); both
\* see the filters and the page of the render
EffectSearches(b, filtersChanged, pageChanged) ==
    (IF filtersChanged THEN <<Request(b, 0)>> ELSE <<>>)
        \o (IF pageChanged THEN <<Request(b, b.page)>> ELSE <<>>)

\* part_001:64, 67  what the effects of a render schedule for a later
\* render: setIsSearching(true), and setPage(0) from the filter effect
EffectUpdates(queue, filtersChanged, pageChanged) ==
    [queue EXCEPT
       !.page = IF filtersChanged THEN Append(@, SetPageZero) ELSE @,
       !.isSearching = IF filtersChanged \/ pageChanged THEN <<TRUE>> ELSE @]

\* the state a render of SNPBrowser makes of the state `from` and the
\* queued updates, `updates` being the setPage calls of the handler
BrowserRendered(from, queue, updates) ==
    [from EXCEPT
       !.page = PageRendered(queue.page \o updates, @),
       !.results = IF queue.answer = <<>> THEN @ ELSE queue.answer[1].results,
       !.total = IF queue.answer = <<>> THEN @ ELSE queue.answer[1].total,
       !.isSearching = IF queue.isSearching = <<>> THEN @
                       ELSE queue.isSearching[1]]

\* the effects of the last commit have not run yet
EffectsPending == browserQueue.effects # <<>>

\* the render at the end of an event handler that set the filters to those
\* of `changed` and made the setPage calls `updates`, and the effects of
\* the render. The effects of an earlier commit that have not run yet run
\* first; the render takes in the updates queued so far as well
Rerendered(changed, updates, filtersChanged) ==
    LET flushed == EffectUpdates(browserQueue, FALSE, EffectsPending)
        after == BrowserRendered(changed, flushed, updates)
        pageChanged == after.page # browser.page
    IN /\ Len(browserSearches) < MaxPending
       /\ browser' = after
       /\ browserSearches' =
            browserSearches \o EffectSearches(browser, FALSE, EffectsPending)
               \o EffectSearches(after, filtersChanged, pageChanged)
       /\ browserQueue' =
            EffectUpdates(NothingQueued, filtersChanged, pageChanged)
       /\ UNCHANGED <<appVars, workerVars>>

\* an update of SNPBrowser is scheduled for a later task
UpdatesQueued ==
    \/ browserQueue.page # <<>>
    \/ browserQueue.answer # <<>>
    \/ browserQueue.isSearching # <<>>

\* the task that renders the updates scheduled in effects and after the
\* await of performSearch (part_001:64, 67, 79, 80, 84) and commits; the
\* effects of the commit run in a later callback
RenderQueued ==
    /\ UpdatesQueued
    /\ ~EffectsPending
    /\ LET after == BrowserRendered(browser, browserQueue, <<>>)
       IN /\ browser' = after
          /\ browserQueue' =
               [NothingQueued EXCEPT
                  !.effects = IF after.page # browser.page THEN <<"page">>
                              ELSE <<>>]
    /\ UNCHANGED <<browserSearches, appVars, workerVars>>

\* part_001:98-100  the callback that runs the effects of a commit made by
\* RenderQueued: the page had changed, the page effect calls
\* performSearch(false)
RunEffects ==
    /\ EffectsPending
    /\ Len(browserSearches) < MaxPending
    /\ browserSearches' = browserSearches \o EffectSearches(browser, FALSE, TRUE)
    /\ browserQueue' =
         EffectUpdates([browserQueue EXCEPT !.effects = <<>>], FALSE, TRUE)
    /\ UNCHANGED <<browser, appVars, workerVars>>

\* part_001:181, 191, 210, 220, 239  onChange of one filter control
SetFilter(field, value) ==
    /\ browser[field] # value
    /\ Rerendered([browser EXCEPT ![field] = value], <<>>, TRUE)

\* part_001:102-109
HandleClearFilters ==
    /\ hasActiveFilters
    /\ Rerendered([browser EXCEPT !.searchTerm = <<>>, !.chromosome = <<>>,
                                  !.gene = <<>>,
                                  !.clinicalSignificance = <<>>,
                                  !.disease = <<>>],
                  <<SetPageZero>>, TRUE)

\* part_001:123  a click on a row of the result list: setSelectedSNP(snp).
\* The render at the end of the click takes in the queued updates and its
\* effects run with it
SelectSNP(k) ==
    /\ k \in 1..Len(browser.results)
    /\ Rerendered([browser EXCEPT !.selectedSNP = <<browser.results[k]>>],
                  <<>>, FALSE)

\* part_001:269-275  the button "Previous"
ClickPrevious ==
    /\ PaginationShown
    /\ browser.page # 0
    /\ Rerendered(browser, <<SetPagePrevious>>, FALSE)

\* part_001:279-285  the button "Next"
ClickNext ==
    /\ PaginationShown
    /\ ~(browser.page >= totalPages - 1)
    /\ Rerendered(browser, <<SetPageNext(totalPages)>>, FALSE)

\* part_001:79-84  the oldest searchSNPs call resolves (the worker answers
\* its calls in the order it received them) and performSearch goes on after
\* its await: setResults, setTotal, setIsSearching(false)
SearchResolved ==
    /\ browserSearches # <<>>
    /\ browserQueue' =
         [browserQueue EXCEPT
            !.answer = <<SearchOutcome(db, Head(browserSearches))>>,
            !.isSearching = <<FALSE>>]
    /\ browserSearches' = Tail(browserSearches)
    /\ UNCHANGED <<browser, appVars, workerVars>>

\* the component after its first render: both effects have run
InitBrowser ==
    /\ db = Materialize(BigImage, 1)
    /\ loads = 1
    /\ LoadIdle /\ MatchIdle /\ SearchIdle
    /\ stats = NoStats
    /\ app = AppMounted /\ appReading = <<>> /\ appMatching = <<>>
    /\ browser = BrowserConstructed
    /\ browserSearches = EffectSearches(BrowserConstructed, TRUE, TRUE)
    /\ appQueue = NoAppUpdates
    /\ browserQueue = EffectUpdates(NothingQueued, TRUE, TRUE)

NextBrowser ==
    \/ \E field \in FilterFields :
         \E value \in FilterValues(field) : SetFilter(field, value)
    \/ HandleClearFilters
    \/ ClickPrevious
    \/ ClickNext
    \/ \E k \in 1..MaxClickedRow : SelectSNP(k)
    \/ SearchResolved
    \/ RenderQueued
    \/ RunEffects

SpecBrowser == InitBrowser /\ [][NextBrowser]_vars

(***************************************************************************)
(* Properties of matchSNPs on a resident store (SpecMatch).                *)
(***************************************************************************)

\* the input positions [lo, hi) of the k-th group, k = 1, 2, ...
GroupLo(k) == 500 * (k - 1)
GroupHi(k, n) == Min(500 * k, n)

\* the group (1, 2, ...) the input line with ordinal pos belongs to
GroupOfPosition(pos) == ((pos - 1) \div 500) + 1

HasRow(store, key) == \E r \in 1..Len(store.rows) : store.rows[r].rsid = key

\* C1: a call over n keys issues ceil(n/500) IN-queries; the k-th one has one
\* placeholder per key at input positions [500(k-1), min(500k, n)) and, once
\* bound, binds exactly those keys in input order (1200 keys: 3 queries).
C1_QueriesCoverInput ==
    /\ mPc = "resolved" => Len(queries) = CeilDiv(Len(genotypes), 500)
    /\ \A k \in 1..Len(queries) :
         LET lo == GroupLo(k)
             hi == GroupHi(k, Len(genotypes))
         IN /\ queries[k].placeholders = hi - lo
            /\ queries[k].outcome # "prepare" =>
                 queries[k].bound = [j \in 1..(hi - lo) |-> genotypes[lo + j].rsid]

C1_Witness ==
    /\ mPc = "resolved"
    /\ Len(genotypes) = 1200
    /\ Len(queries) = 3
    /\ queries[1].placeholders = 500
    /\ queries[2].placeholders = 500
    /\ queries[3].placeholders = 200
    /\ queries[3].bound[200] = genotypes[1200].rsid

\* C2: every query of a call takes at least 1 and at most 500 parameters,
\* which is strictly below the store's ceiling of 999.
C2_ParamsWithinCeiling ==
    \A k \in 1..Len(queries) :
        /\ queries[k].placeholders >= 1
        /\ queries[k].placeholders <= 500
        /\ Len(queries[k].bound) <= 500
        /\ queries[k].placeholders < SQLiteParamLimit

C2_Witness ==
    /\ mPc = "resolved"
    /\ Len(queries) = 3
    /\ queries[1].placeholders = 500
    /\ Len(queries[1].bound) = 500
    /\ queries[3].placeholders = 1

\* C3: every occurrence of an input key that has a dataset row yields its own
\* MatchedRecord; dataset {rs1, rs2, rs3} with keys [rs1, rs4, rs1] gives 2
\* entries, both rs1, and the last tick is (3, 3). Stated for the lists of
\* at most 3 keys, the size of the claim's example.
C3_EveryOccurrenceMatched ==
    (mPc = "resolved" /\ failures = 0 /\ Len(genotypes) <= 3) =>
        /\ \A k \in 1..Len(genotypes) :
             HasRow(database, genotypes[k].rsid) =>
                 \E m \in 1..Len(matches) : matches[m].position = k
        /\ (database.rows = <<Row1, Row2, Row3>>
              /\ RsidsOf(genotypes) = <<rs1, rs4, rs1>>) =>
                 /\ Len(matches) = 2
                 /\ matches[1].rsid = rs1 /\ matches[2].rsid = rs1
                 /\ mTicks[Len(mTicks)] = <<3, 3>>

NonDecreasing(ticks) ==
    \A k \in 1..(Len(ticks) - 1) : ticks[k][1] <= ticks[k + 1][1]

\* C4 as stated: for every call the first arguments are non-decreasing, every
\* tick carries total = keys.length, and keys.length is reported exactly
\* once, as the last tick.
C4_Original ==
    mPc \in {"resolved", "rejected"} =>
        /\ NonDecreasing(mTicks)
        /\ \A k \in 1..Len(mTicks) : mTicks[k][2] = Len(genotypes)
        /\ Cardinality({k \in 1..Len(mTicks) : mTicks[k][1] = Len(genotypes)}) = 1
        /\ mTicks[Len(mTicks)][1] = Len(genotypes)

\* C4 amended: the same for every call on a resident store with at least one
\* key; a call with an empty key list makes no onProgress call at all.
C4_ProgressReachesTotalOnce ==
    /\ NonDecreasing(mTicks)
    /\ \A k \in 1..Len(mTicks) : mTicks[k][2] = Len(genotypes)
    /\ (mPc = "resolved" /\ Len(genotypes) > 0) =>
         /\ Cardinality({k \in 1..Len(mTicks) : mTicks[k][1] = Len(genotypes)}) = 1
         /\ mTicks[Len(mTicks)][1] = Len(genotypes)
    /\ (mPc = "resolved" /\ Len(genotypes) = 0) => mTicks = <<>>

C4_Witness ==
    /\ mPc = "resolved"
    /\ Len(genotypes) = 1000
    /\ mTicks = <<<<500, 1000>>, <<1000, 1000>>>>

\* C5: for a non-empty key list the result has at most keys.length entries,
\* and in every MatchedRecord the rsid copied from the input record equals
\* the rsid of the paired dataset row.
C5_MatchedKeyEqualsRowKey ==
    /\ Len(genotypes) > 0 => Len(matches) <= Len(genotypes)
    /\ \A m \in 1..Len(matches) : matches[m].rsid = matches[m].snpData.rsid

C5_Witness ==
    /\ mPc = "resolved"
    /\ Len(matches) = 2
    /\ matches[1].rsid = RS1
    /\ matches[2].rsid = rs1

\* C6: when no group query fails the call resolves, and the set of keys in
\* the result is the set of input keys that have a row in the dataset; keys
\* without a row are dropped silently.
C6_UnmatchedKeysDropped ==
    /\ mPc # "rejected"
    /\ (mPc = "resolved" /\ failures = 0) =>
         {matches[m].rsid : m \in 1..Len(matches)}
           = {genotypes[k].rsid : k \in {j \in 1..Len(genotypes) :
                                           HasRow(database, genotypes[j].rsid)}}

C6_Witness ==
    /\ mPc = "resolved" /\ failures = 0
    /\ RsidsOf(genotypes) = <<rs4, rs2, RS1>>
    /\ database.rows = <<Row1, Row2, Row3>>
    /\ Len(matches) = 1
    /\ matches[1].rsid = rs2

\* C7: a group whose query fails (in prepare, in bind or while stepping)
\* contributes no MatchedRecord; the call still resolves and the following
\* groups are queried. Stated for the lists of at most 3 keys.
C7_FailedGroupContributesNothing ==
    /\ mPc # "rejected"
    /\ (mPc = "resolved" /\ Len(genotypes) <= 3) =>
         /\ Len(queries) = CeilDiv(Len(genotypes), 500)
         /\ \A k \in 1..Len(queries) :
              queries[k].outcome # "ok" =>
                  \A m \in 1..Len(matches) :
                      GroupOfPosition(matches[m].position) # k

\* C8: onProgress is called once per group, after the group's query has
\* completed or failed, and the k-th call reports (min(500k, n), n).
C8_OneTickPerGroup ==
    /\ mPc \in {"loop", "resolved"} => Len(mTicks) = Len(queries)
    /\ mPc = "tick" => Len(mTicks) = Len(queries) - 1
    /\ mPc = "resolved" => Len(mTicks) = CeilDiv(Len(genotypes), 500)
    /\ \A k \in 1..Len(mTicks) :
         mTicks[k] = <<Min(500 * k, Len(genotypes)), Len(genotypes)>>

C8_Witness ==
    /\ mPc = "resolved"
    /\ Len(genotypes) = 1200
    /\ queries[2].outcome = "bind"
    /\ mTicks = <<<<500, 1200>>, <<1000, 1200>>, <<1200, 1200>>>>

RECURSIVE ConcatRows(_)
ConcatRows(qs) ==
    IF qs = <<>> THEN <<>> ELSE Head(qs).rows \o ConcatRows(Tail(qs))

\* C9: the result lists the matches of group 0, then group 1, ...; within a
\* group the matches are in the order in which the store returned the rows.
C9_GroupThenStoreOrder ==
    /\ [m \in 1..Len(matches) |-> matches[m].snpData] = ConcatRows(queries)
    /\ \A m \in 1..(Len(matches) - 1) :
         GroupOfPosition(matches[m].position)
           <= GroupOfPosition(matches[m + 1].position)
    /\ \A k \in 1..Len(queries) : \A r \in 1..Len(queries[k].rows) :
         GroupOfPosition(
             matches[Len(ConcatRows(SubSeq(queries, 1, k - 1))) + r].position) = k

C9_Witness ==
    /\ mPc = "resolved"
    /\ database.rows = <<Row3, Row1>>
    /\ Len(matches) = 3
    /\ matches[1].rsid = rs3 /\ matches[1].position = 500
    /\ matches[2].rsid = rs1 /\ matches[2].position = 1
    /\ matches[3].rsid = rs1 /\ matches[3].position = 501

(***************************************************************************)
(* Properties of the whole worker (SpecStore).                             *)
(***************************************************************************)
\* C10: a matchSNPs or searchSNPs call made while the store is not resident
\* (before a load, during one, after a failed one) rejects with the
\* not-loaded error, hands no statement to the store and calls no progress
\* callback.
C10_NotLoadedRejects ==
    [][/\ (~db.resident /\ mPc = "idle" /\ mPc' # "idle") =>
             /\ mPc' = "rejected"
             /\ mError' = NotLoadedError
             /\ queries' = <<>>
             /\ mTicks' = <<>>
             /\ matches' = <<>>
       /\ (~db.resident /\ sPc = "idle" /\ sPc' # "idle") =>
             /\ sPc' = "rejected"
             /\ sError' = NotLoadedError
             /\ sQueries' = <<>>
             /\ sResult' = NoResult
       /\ (mPc = "rejected" /\ mPc' # "rejected") => mPc' = "idle"
       /\ (sPc = "rejected" /\ sPc' # "rejected") => sPc' = "idle"]_vars

\* a matchSNPs call made in the middle of the first download was rejected
C10_Witness ==
    /\ mPc = "rejected"
    /\ mError = NotLoadedError
    /\ ~db.resident
    /\ loadPc[1] = "read"
    /\ chunks[1] # <<>>
    /\ queries = <<>> /\ mTicks = <<>>

(***************************************************************************)
(* Properties of loadDatabase (Spec, SpecLoad).                            *)
(***************************************************************************)
\* comparisons of progress values <<numerator, denominator>>, denominator > 0
FracLeq(a, b) == a[1] * b[2] <= b[1] * a[2]
FracEq(a, b) == a[1] * b[2] = b[1] * a[2]

\* C11: every value a loadDatabase call passes to onProgress lies in
\* [0, 100], and the values of one call never decrease, whatever the chunk
\* sizes and whatever the declared content-length is next to the bytes
\* received.
C11_LoadProgressBoundedMonotone ==
    \A c \in LoadCalls :
      /\ \A k \in 1..Len(loadTicks[c]) :
           /\ FracLeq(Tick(0), loadTicks[c][k])
           /\ FracLeq(loadTicks[c][k], Tick(100))
      /\ \A k \in 1..(Len(loadTicks[c]) - 1) :
           FracLeq(loadTicks[c][k], loadTicks[c][k + 1])

\* C12: with no usable content-length (total = 0) the chunk loop emits no
\* download tick, and when the stream ends and materialization does not
\* throw, the call reports 85, 90, 100 and resolves with the store resident.
C12_UnknownLengthReaches100 ==
    [][\A c \in LoadCalls :
         (loadPc[c] = "read" /\ total[c] = 0) =>
          /\ loadTicks[c] = <<Tick(0), Tick(10), Tick(30)>>
          /\ (loadPc'[c] = "read" => loadTicks'[c] = loadTicks[c])
          /\ (loadPc'[c] = "resolved" =>
                 /\ loadTicks'[c] = <<Tick(0), Tick(10), Tick(30),
                                      Tick(85), Tick(90), Tick(100)>>
                 /\ Loaded(db'))
          /\ (loadPc'[c] # "read" /\ loadError'[c] = ""
                => loadPc'[c] = "resolved")]_vars

\* a load with no content-length that took two chunks has resolved
C12_Witness ==
    /\ loadPc[1] = "resolved"
    /\ total[1] = 0
    /\ Len(chunks[1]) = 2
    /\ loadTicks[1][Len(loadTicks[1])] = Tick(100)
    /\ Loaded(db)

LoadFailures ==
    {"initSqlJs failed", "fetch failed", "Failed to load database",
     "Response body is not readable", "read failed", "file is not a database"}

\* C13: a loadDatabase call that fails in any phase rejects with the
\* phase's error, the store handle is null when it does, and the call has
\* passed 100 to onProgress at no point.
C13_FailedLoadLeavesNoStore ==
    [][\A c \in LoadCalls :
         /\ (loadPc[c] # "rejected" /\ loadPc'[c] = "rejected") =>
               /\ loadError'[c] \in LoadFailures
               /\ db' = NoDb
               /\ \A k \in 1..Len(loadTicks'[c]) :
                    ~FracEq(loadTicks'[c][k], Tick(100))
         /\ loadPc'[c] # "rejected" => loadError'[c] = ""]_vars

(***************************************************************************)
(* Properties of the store handle (SpecStore).                             *)
(***************************************************************************)
\* C14: in every state the store handle is null or holds a store made from
\* the whole byte stream of its load, also while a reader runs between two
\* steps of a load in progress; the handle a matchSNPs call works on and
\* the row count getDatabaseStats reports are those of a whole stream too.
C14_StoreNullOrComplete ==
    /\ Loaded(db) => db.rows \in WorkerImages
    /\ Loaded(database) => database.rows \in WorkerImages
    /\ (stats.called /\ ~stats.threw) =>
          stats.totalSNPs \in {0} \cup {Len(img) : img \in WorkerImages}
    /\ Loaded(db) => loadPc[db.id] \in {"resolved", "idle"}
    /\ \A c \in LoadCalls :
         (loadPc[c] = "resolved" /\ db.id = c) =>
            (db.rows = image[c] /\ image[c] = Concat(chunks[c]))
    /\ (loads = 1 /\ loadPc[1] \in {"init", "fetch", "read"}) => db = NoDb

\* a matchSNPs call ran to its end in the middle of the download of a
\* second load, on the store of the first
C14_Witness ==
    /\ loads = 2
    /\ loadPc[2] = "read"
    /\ chunks[2] # <<>>
    /\ streamPos[2] < Len(image[2])
    /\ Loaded(db)
    /\ db.rows # image[2]
    /\ mPc = "resolved"
    /\ database = db
    /\ matches # <<>>

\* C15 as stated: once the store is resident the handle never changes
\* again, whatever calls follow, loadDatabase included.
C15_Original == [][Loaded(db) => db' = db]_vars

\* C15: once a loadDatabase call has succeeded the store stays resident and
\* the same instance through every later matchSNPs, searchSNPs and
\* getDatabaseStats call and through every step of another loadDatabase
\* call but its last: another load that fails sets the handle to null, and
\* another load that succeeds installs a new instance.
C15_StoreStableUntilNextLoadEnds ==
    [][Loaded(db) =>
         \A c \in LoadCalls :
           /\ (loadPc[c] # "rejected" /\ loadPc'[c] = "rejected") => db' = NoDb
           /\ (loadPc[c] # "resolved" /\ loadPc'[c] = "resolved") =>
                  (Loaded(db') /\ db'.id = c /\ db'.id # db.id)
           /\ (\A d \in LoadCalls :
                  loadPc'[d] = loadPc[d]
                    \/ loadPc'[d] \notin {"rejected", "resolved"}) =>
                  db' = db]_vars

\* the store of the first load is still the resident one after a search
\* call that ran in the middle of the download of a second load
C15_Witness ==
    /\ loads = 2
    /\ loadPc[2] = "read"
    /\ receivedLength[2] > 0
    /\ Loaded(db)
    /\ db.id = 1
    /\ sPc = "resolved"
    /\ sResult.total > 0

\* C16: a step of matchSNPs, searchSNPs or getDatabaseStats, successful or
\* not, leaves the store handle and the rows of the store as they were; the
\* handle changes only in the step that ends a loadDatabase call.
C16_OnlyLoadWritesStore ==
    [][/\ (mPc' # mPc \/ i' # i \/ queries' # queries \/ mTicks' # mTicks
           \/ sPc' # sPc \/ stats' # stats) => db' = db
       /\ db' # db =>
             \E c \in LoadCalls :
               /\ loadPc[c] \in {"init", "fetch", "read"}
               /\ loadPc'[c] \in {"resolved", "rejected"}
       /\ mPc \in {"loop", "tick"} => database = db]_vars

\* a matchSNPs call with a failed group has returned and the store is the
\* one that was loaded
C16_Witness ==
    /\ Loaded(db)
    /\ db = Materialize(<<Row3, Row1>>, 1)
    /\ mPc = "resolved"
    /\ failures = 1
    /\ database = db

(***************************************************************************)
(* Properties of searchSNPs (SpecSearch).                                  *)
(***************************************************************************)
\* a criterion that is given and is not empty once trimmed
Present(c) == Truthy(c) /\ Trim(c) # <<>>

HasClause(conds, clause) == \E k \in 1..Len(conds) : conds[k] = clause

PlaceholdersIf(c, clause) == IF Present(c) THEN Len(ClauseColumns(clause)) ELSE 0

\* C17: in the statements of a searchSNPs call, the clause of each of the
\* five criteria is in the WHERE predicate exactly when the criterion is
\* non-empty after trimming; absent, empty and whitespace-only criteria add
\* no clause and no bound parameter.
C17_ClauseIffNonEmptyTrimmed ==
    sQueries # <<>> =>
      LET conds == sQueries[1].where
          f == sFilters
      IN /\ HasClause(conds, SearchTermClause) <=> Present(f.searchTerm)
         /\ HasClause(conds, ChromosomeClause) <=> Present(f.chromosome)
         /\ HasClause(conds, GeneClause) <=> Present(f.gene)
         /\ HasClause(conds, ClinSigClause) <=> Present(f.clinicalSignificance)
         /\ HasClause(conds, DiseaseClause) <=> Present(f.disease)
         /\ Len(sQueries[1].bound) =
              PlaceholdersIf(f.searchTerm, SearchTermClause)
              + PlaceholdersIf(f.chromosome, ChromosomeClause)
              + PlaceholdersIf(f.gene, GeneClause)
              + PlaceholdersIf(f.clinicalSignificance, ClinSigClause)
              + PlaceholdersIf(f.disease, DiseaseClause)

\* the value the code binds for every placeholder of a clause
ParamOf(clause, f) ==
    CASE clause = SearchTermClause -> Wrap(Trim(f.searchTerm))
      [] clause = ChromosomeClause -> f.chromosome
      [] clause = GeneClause -> Wrap(Trim(f.gene))
      [] clause = ClinSigClause -> Wrap(f.clinicalSignificance)
      [] clause = DiseaseClause -> Wrap(Trim(f.disease))

\* C18: the count statement and the paginated select of one searchSNPs
\* call carry the same WHERE clauses and the same filter parameters; there
\* is one parameter per placeholder, in the order of the clauses; the select
\* binds the filter parameters, then limit, then offset.
C18_CountAndSelectShareWhere ==
    sQueries # <<>> =>
      LET c == sQueries[1]
          n == Len(c.bound)
      IN /\ c.sql = "count"
         /\ PlaceholdersOf(c.where) = n
         /\ \A k \in 1..Len(c.where) :
              \A j \in 1..Len(ClauseColumns(c.where[k])) :
                c.bound[PlaceholdersOf(SubSeq(c.where, 1, k - 1)) + j]
                  = ParamOf(c.where[k], sFilters)
         /\ Len(sQueries) = 2 =>
              LET q == sQueries[2]
              IN /\ q.sql = "select"
                 /\ q.where = c.where
                 /\ Len(q.bound) = n + 2
                 /\ SubSeq(q.bound, 1, n) = c.bound
                 /\ q.bound[n + 1] = NumberOr(sFilters.limit, DefaultLimit)
                 /\ q.bound[n + 2] = NumberOr(sFilters.offset, DefaultOffset)

\* a search with all five criteria has resolved: 5 clauses, 12 filter
\* parameters, 14 values bound to the select
C18_Witness ==
    /\ sPc = "resolved"
    /\ Len(sQueries) = 2
    /\ Len(sQueries[1].where) = 5
    /\ Len(sQueries[1].bound) = 12
    /\ Len(sQueries[2].bound) = 14
    /\ sQueries[2].bound[13] = 2

\* the rows of the resident store that satisfy the predicate of the criteria
FilteredBy(f) == Filtered(db, BuildWhere(f).conditions, BuildWhere(f).params)

\* C19: a resolved searchSNPs call returns as total the number of rows that
\* satisfy the filter predicate, whatever limit and offset are, and returns
\* at most limit rows, limit being the caller's value when one is supplied
\* and 50 otherwise. Stated for the limits that are not negative.
C19_TotalFullAndPageWithinLimit ==
    (sPc = "resolved" /\ (sFilters.limit = <<>> \/ sFilters.limit[1] >= 0)) =>
      /\ sResult.total = Len(FilteredBy(sFilters))
      /\ Len(sResult.results)
           <= (IF sFilters.limit = <<>> THEN DefaultLimit ELSE sFilters.limit[1])

\* the offset of a criteria object, 0 when none is given
OffsetOf(f) == IF f.offset = <<>> THEN DefaultOffset ELSE f.offset[1]

\* C20: a searchSNPs call whose offset is at or past the number of rows
\* that satisfy the filter fails for no reason of its own (only an engine
\* failure rejects a call on a resident store) and, resolved, returns an
\* empty results list with total equal to that number.
C20_OffsetPastEndIsEmptyPage ==
    (sQueries # <<>> /\ OffsetOf(sFilters) >= Len(FilteredBy(sFilters))) =>
      /\ sPc = "resolved" =>
            /\ sResult.results = <<>>
            /\ sResult.total = Len(FilteredBy(sFilters))
      /\ sPc = "rejected" =>
            sError \in {"count query failed", "select query failed"}

\* the page at offset 5 of a filter that two rows satisfy
C20_Witness ==
    /\ sPc = "resolved"
    /\ sFilters.offset = <<5>>
    /\ sFilters.chromosome = <<"1">>
    /\ sResult.total = 1
    /\ sResult.results = <<>>

(***************************************************************************)
(* Properties of searchSNPs on a resident store (SpecSearch).              *)
(***************************************************************************)
\* C21: searchSNPs called with no criteria at all returns as total the
\* number of rows of the dataset and as results its first min(50, total)
\* rows, in storage order.
C21_NoCriteriaIsFirstPageOfAll ==
    (sPc = "resolved" /\ sFilters = NoCriteria) =>
      /\ sResult.total = Len(db.rows)
      /\ sResult.results = SubSeq(db.rows, 1, Min(50, Len(db.rows)))

\* the first page of a dataset of 51 rows
C21_Witness ==
    /\ sPc = "resolved"
    /\ sFilters = NoCriteria
    /\ db.rows = BigImage
    /\ sResult.total = 51
    /\ Len(sResult.results) = 50
    /\ sResult.results[50] = BigRow(50)

\* sub occurs in text as a run of characters, letters compared without case
ContainsIgnoreCase(text, sub) ==
    \E k \in 0..(Len(text) - Len(sub)) :
        \A j \in 1..Len(sub) : LowerChar(text[k + j]) = LowerChar(sub[j])

\* some field of the clause holds the trimmed criterion as a literal substring
LiteralHit(row, clause, c) ==
    \E j \in 1..Len(ClauseColumns(clause)) :
        /\ row[ClauseColumns(clause)[j]] # Null
        /\ ContainsIgnoreCase(row[ClauseColumns(clause)[j]], Trim(c))

\* C22: every row that searchSNPs returns for a free-text, gene or disease
\* criterion holds the trimmed text of the criterion as a literal substring,
\* compared without case, in one of the fields of the criterion's clause; no
\* character of the text is read as a wildcard.
C22_OnlyLiteralSubstringsQualify ==
    sPc = "resolved" =>
      \A r \in 1..Len(sResult.results) :
        LET row == sResult.results[r]
            f == sFilters
        IN /\ Present(f.searchTerm) => LiteralHit(row, SearchTermClause, f.searchTerm)
           /\ Present(f.gene) => LiteralHit(row, GeneClause, f.gene)
           /\ Present(f.disease) => LiteralHit(row, DiseaseClause, f.disease)

(***************************************************************************)
(* Case of the keys in matchSNPs (SpecMatch).                              *)
(***************************************************************************)
\* C23: key matching in matchSNPs is case-insensitive: an input key is
\* paired with a row whenever the two keys are equal after both are folded
\* to one case. Stated for the calls with one key and no failed group.
C23_KeysMatchIgnoringCase ==
    (mPc = "resolved" /\ Len(genotypes) = 1 /\ failures = 0) =>
      \A r \in 1..Len(database.rows) :
        ToLowerCase(genotypes[1].rsid) = ToLowerCase(database.rows[r].rsid) =>
          \E m \in 1..Len(matches) :
            /\ matches[m].position = 1
            /\ matches[m].snpData = database.rows[r]

\* C24: a searchSNPs call in which the count statement or the select fails
\* in the engine rejects with that failure and hands back no result; a call
\* that resolves has run both statements and hands back what they gave,
\* never an empty or partial pair put in the place of a failure.
C24_EngineFailureRejectsSearch ==
    /\ (sPc = "rejected" /\ sQueries # <<>>) =>
          /\ sResult = NoResult
          /\ sError = (IF Len(sQueries) = 1 THEN "count query failed"
                                           ELSE "select query failed")
    /\ sPc = "resolved" =>
          /\ sError = ""
          /\ Len(sQueries) = 2
          /\ sResult.total = CountQuery(db, sQueries[1].where, sQueries[1].bound)
          /\ sResult.results = SelectQuery(db, sQueries[2].where, sQueries[2].bound)

\* the select of a search by chromosome failed after the count had run
C24_Witness ==
    /\ sPc = "rejected"
    /\ sError = "select query failed"
    /\ Len(sQueries) = 2
    /\ sFilters.chromosome = <<"1">>
    /\ sResult = NoResult
    /\ CountQuery(db, sQueries[1].where, sQueries[1].bound) = 2

(***************************************************************************)
(* Scheduling inside the worker (Spec).                                    *)
(***************************************************************************)
\* a matchSNPs call stands between two of its groups
AtGroupBoundary == mPc = "loop" /\ 0 < i /\ i < Len(genotypes)

\* C27: at each boundary between two groups of a running matchSNPs call the
\* worker yields, so that a queued searchSNPs or a second matchSNPs call can
\* be serviced there, before the next group query of the first call.
C27_YieldsBetweenGroups ==
    AtGroupBoundary =>
      /\ ENABLED (\E f \in SearchInputs : SearchSNPs(f))
      /\ ENABLED (\E keys \in WorkerKeyLists : MatchSNPs(keys))

(***************************************************************************)
(* The completion tick of loadDatabase (SpecLoad).                         *)
(***************************************************************************)
\* the places of the value 100 among the ticks of a load
Hundreds(ticks) == {k \in 1..Len(ticks) : FracEq(ticks[k], Tick(100))}

\* C28: a loadDatabase call reports progress 100 at most once, and only
\* after the store handle has been set to the store materialized from the
\* call's byte stream, so that a caller who has seen 100 finds the store
\* resident.
C28_HundredOnceAfterStoreSet ==
    [][\A c \in LoadCalls :
         /\ Cardinality(Hundreds(loadTicks'[c])) <= 1
         /\ Hundreds(loadTicks'[c]) \notin {{}, Hundreds(loadTicks[c])} =>
               /\ loadPc'[c] = "resolved"
               /\ Loaded(db')
               /\ db'.rows = image[c]]_vars

(***************************************************************************)
(* Settling of the calls (SpecSettle).                                     *)
(***************************************************************************)
\* C26: every call made to the worker (loadDatabase, getDatabaseStats,
\* matchSNPs, searchSNPs) settles and is delivered to its caller once,
\* resolved or rejected, and a rejection carries the message of the error
\* thrown in the worker.
C26_EveryCallSettlesOnce ==
    /\ \A c \in LoadCalls : (loadPc[c] # "idle") ~> (loadPc[c] = "idle")
    /\ (mPc # "idle") ~> (mPc = "idle")
    /\ (sPc # "idle") ~> (sPc = "idle")
    /\ (~StatsIdle) ~> StatsIdle
    /\ [][/\ \A c \in LoadCalls :
               (loadPc[c] # "idle" /\ loadPc'[c] = "idle") =>
                 (loadPc[c] = "resolved"
                    \/ (loadPc[c] = "rejected" /\ loadError[c] # ""))
          /\ (mPc # "idle" /\ mPc' = "idle") =>
               (mPc = "resolved" \/ (mPc = "rejected" /\ mError # ""))
          /\ (sPc # "idle" /\ sPc' = "idle") =>
               (sPc = "resolved" \/ (sPc = "rejected" /\ sError # ""))
          /\ (~StatsIdle /\ stats' = NoStats) =>
               (stats.threw => stats.error # "")]_vars

\* a load has rejected with the message of a read error while the store of
\* an earlier load was resident
C26_Witness ==
    /\ loadPc[2] = "rejected"
    /\ loadError[2] = "read failed"
    /\ loads = 2
    /\ chunks[2] # <<>>


(***************************************************************************)
(* The App component (SpecApp).                                            *)
(***************************************************************************)
\* C29: while a matchSNPs call started by handleFileSelect is pending no
\* second one is started, and once no handleFileSelect call is in flight
\* and every update is rendered the matches on display are the matches of
\* the genotypes of the parseResult on display
C29_OneMatchCallAtATime ==
    /\ Len(appMatching) <= 1
    /\ (/\ appReading = <<>> /\ appMatching = <<>> /\ ~AppUpdatesQueued
        /\ ResultsShown /\ app.parseResult # <<>>)
       => app.matches[1] \in MatchAll(db, app.parseResult[1].genotypes, 0, <<>>)

(***************************************************************************)
(* The SNPBrowser component (SpecBrowser).                                 *)
(***************************************************************************)
\* C30: once no search is pending, every update is rendered and every
\* effect has run, the page index is at least 0 and less than
\* max(1, ceil(total / 50)), and the results and the total on display are
\* those of the filters on display at offset page * 50
C30_SettledPageWithinTotal ==
    (browserSearches = <<>> /\ ~UpdatesQueued /\ ~EffectsPending) =>
        LET pages == CeilDiv(browser.total, pageSize)
            now == SearchOutcome(db, Request(browser, browser.page))
        IN /\ 0 <= browser.page
           /\ browser.page < (IF pages > 1 THEN pages ELSE 1)
           /\ browser.results = now.results
           /\ browser.total = now.total


====
